---- MODULE Spec2Model ----
(***************************************************************************)
(* Student_scores (src/app.py): a FastAPI service over three SQLite tables *)
(* (students, subjects, scores) accessed through SQLAlchemy ORM sessions.  *)
(*                                                                         *)
(* Spec      one action per HTTP handler, each handler run as a whole.     *)
(* SpecConc  the handlers as the threadpool runs them: one step per store  *)
(*           round trip (query, flush+commit, refresh) plus the get_db     *)
(*           dependency opening and closing the request's session.         *)
(* FairSpec  SpecConc with every started request run to its end.           *)
(*                                                                         *)
(* Integer arguments are drawn from the range of the SQLite INTEGER column *)
(* type; a nullable column holds NULL (<<>>) or Some(v) (<<v>>).           *)
(***************************************************************************)
EXTENDS Integers, Sequences, FiniteSets, TLC

VARIABLES
    students,    \* rows of table "students":  [id, name, surname]
    subjects,    \* rows of table "subjects":  [id, name]
    scores,      \* rows of table "scores":    [id, student_id, subject_id, score]
    last,        \* Spec: the last request handled and its response
    created,     \* ids create_student has returned so far
    deleted,     \* ids on which delete_student has succeeded so far
    pc,          \* SpecConc: position of each threadpool worker in its handler
    req,         \* SpecConc: the request each worker is handling
    loaded,      \* SpecConc: the row the handler's query loaded into its session
    resp,        \* SpecConc: the response of each worker's request
    sess,        \* SpecConc: the session get_db gave the worker (0: none)
    open,        \* SpecConc: sessions created and not yet closed
    nsess,       \* SpecConc: number of sessions SessionLocal() has created
    started      \* number of requests received so far

store == <<students, subjects, scores>>
hist  == <<created, deleted>>
conc  == <<pc, req, loaded, resp, sess, open, nsess>>
vars  == <<students, subjects, scores, last, created, deleted,
           pc, req, loaded, resp, sess, open, nsess, started>>

----------------------------------------------------------------------------
(* Bounds of the model *)

\* Spec: number of requests handled
MaxHandled == 6
\* SpecConc: number of requests received
MaxRequests == 3

(* Inputs *)
Names == {"Ada"}
Surnames == {"Lovelace"}
NewNames == {"Grace"}
NewSurnames == {"Hopper"}
SubjectNames == {"Math", "Art"}
ScoreValues == {-1, 0, 1}
StudentIds == 1 .. 3
SubjectIds == 1 .. 3
ScoreIds == 1 .. 2
RefStudentIds == {1}
RefSubjectIds == {1}
\* SpecConc: the two threadpool workers whose requests run concurrently, and
\* the ids, subject names and score values their requests carry
Threads == {1, 2}
ConcIds == {1}
ConcSubjectNames == {"Math"}
ConcScoreValues == {0}

NULL == <<>>
Some(v) == <<v>>
\* Optional[str] query parameter of update_student: omitted, "" or a value
OptNames == {NULL, Some("")} \cup {Some(n) : n \in NewNames}
OptSurnames == {NULL, Some("")} \cup {Some(n) : n \in NewSurnames}

----------------------------------------------------------------------------
(* The store: SQLite tables as the ORM reads and writes them *)

Max(S) == CHOOSE m \in S : \A x \in S : x <= m

\* INTEGER PRIMARY KEY without AUTOINCREMENT: an insert that gives no id gets
\* one more than the largest rowid now in the table (1 for an empty table).
NextRowid(rows) == IF rows = {} THEN 1 ELSE Max({r.id : r \in rows}) + 1

\* Mutant: the filter on the id is lost, first() returns the table's first row
QueryFirst_NoFilter(rows, id) ==
    IF rows = {} THEN {} ELSE {CHOOSE r \in rows : \A o \in rows : r.id <= o.id}

\* db.query(M).filter(M.id == id).first(): the row with that id, if any
QueryFirst(rows, id) == {r \in rows : r.id = id}

\* Mutant: the test is "is not None", so "" counts as supplied
Truthy_NotNone(opt) == opt # NULL

\* Python truthiness of an Optional[str]: None and "" are falsy
Truthy(opt) == opt # NULL /\ opt[1] # ""

\* Mutant: the second assignment writes the surname into the name column
AssignFields_Slip(student, name, surname) ==
    [student EXCEPT !.name = IF Truthy(surname) THEN surname[1]
                             ELSE IF Truthy(name) THEN name[1] ELSE @]

\* "if name: student.name = name" and "if surname: student.surname = surname"
AssignFields(student, name, surname) ==
    [student EXCEPT !.name = IF Truthy(name) THEN name[1] ELSE @,
                    !.surname = IF Truthy(surname) THEN surname[1] ELSE @]

\* Mutant: relationship "scores" declared with cascade="all, delete"
DeassociateStudent_Cascade(rows, id) == {s \in rows : s.student_id # Some(id)}

\* Flush of db.delete(student): relationship "scores" has no delete cascade, so
\* the unit of work loads the student's scores and sets their student_id to NULL.
DeassociateStudent(rows, id) ==
    {IF s.student_id = Some(id) THEN [s EXCEPT !.student_id = NULL] ELSE s : s \in rows}

\* Flush of db.delete(subject): the same for relationship Subject.scores
DeassociateSubject(rows, id) ==
    {IF s.subject_id = Some(id) THEN [s EXCEPT !.subject_id = NULL] ELSE s : s \in rows}

\* Mutant: the column is declared without unique=True
UniqueViolation_None(rows, name) == FALSE

\* unique=True on subjects.name: the INSERT fails when the name is taken
UniqueViolation(rows, name) == \E s \in rows : s.name = name

StudentRow(id, name, surname) == [id |-> id, name |-> name, surname |-> surname]
SubjectRow(id, name) == [id |-> id, name |-> name]
\* Mutant: the handler stores the magnitude of the score
ScoreRow_Magnitude(id, student_id, subject_id, score) ==
    [id |-> id, student_id |-> Some(student_id),
     subject_id |-> Some(subject_id), score |-> IF score < 0 THEN -score ELSE score]

ScoreRow(id, student_id, subject_id, score) ==
    [id |-> id, student_id |-> Some(student_id),
     subject_id |-> Some(subject_id), score |-> score]

\* db.delete(row); db.commit(): DELETE ... WHERE id = the row's id
DeleteRow(rows, row) == rows \ row

\* A response: status code and the rows of its body (none for a message or error)
Response(op, args, status, body) ==
    [op |-> op, args |-> args, status |-> status, body |-> body]

----------------------------------------------------------------------------
(* Spec: one action per handler *)

Init ==
    /\ students = {}
    /\ subjects = {}
    /\ scores = {}
    /\ last = Response("none", <<>>, 0, {})
    /\ created = {}
    /\ deleted = {}
    /\ pc = [t \in Threads |-> "idle"]
    /\ req = [t \in Threads |-> [op |-> "none", args |-> <<>>, seq |-> 0]]
    /\ loaded = [t \in Threads |-> {}]
    /\ resp = [t \in Threads |-> [status |-> 0, body |-> {}, at |-> 0]]
    /\ sess = [t \in Threads |-> 0]
    /\ open = {}
    /\ nsess = 0
    /\ started = 0

\* Spec: the server takes the next request
Handle == started < MaxHandled /\ started' = started + 1

\* get_student's response in the current store
GetStudent(student_id) ==
    LET student == QueryFirst(students, student_id) IN
    IF student = {}
    THEN Response("get_student", <<student_id>>, 404, {})
    ELSE Response("get_student", <<student_id>>, 200, student)

\* get_score's response in the current store
GetScore(score_id) ==
    LET score == QueryFirst(scores, score_id) IN
    IF score = {}
    THEN Response("get_score", <<score_id>>, 404, {})
    ELSE Response("get_score", <<score_id>>, 200, score)

create_student ==
    /\ Handle
    /\ \E name \in Names, surname \in Surnames :
        LET student == StudentRow(NextRowid(students), name, surname) IN
        /\ students' = students \cup {student}
        /\ created' = created \cup {student.id}
        /\ last' = Response("create_student", <<name, surname>>, 200, {student})
        /\ UNCHANGED <<subjects, scores, deleted, conc>>

get_students ==
    /\ Handle
    /\ last' = Response("get_students", <<>>, 200, students)
    /\ UNCHANGED <<store, hist, conc>>

get_student ==
    /\ Handle
    /\ \E student_id \in StudentIds :
        /\ last' = GetStudent(student_id)
        /\ UNCHANGED <<store, hist, conc>>

update_student ==
    /\ Handle
    /\ \E student_id \in StudentIds, name \in OptNames, surname \in OptSurnames :
        LET student == QueryFirst(students, student_id) IN
        IF student = {}
        THEN /\ last' = Response("update_student", <<student_id, name, surname>>, 404, {})
             /\ UNCHANGED <<store, hist, conc>>
        ELSE LET old == CHOOSE s \in student : TRUE
                 new == AssignFields(old, name, surname) IN
             /\ students' = (students \ {old}) \cup {new}
             /\ last' = Response("update_student", <<student_id, name, surname>>, 200, {new})
             /\ UNCHANGED <<subjects, scores, hist, conc>>

delete_student ==
    /\ Handle
    /\ \E student_id \in StudentIds :
        LET student == QueryFirst(students, student_id) IN
        IF student = {}
        THEN /\ last' = Response("delete_student", <<student_id>>, 404, {})
             /\ UNCHANGED <<store, hist, conc>>
        ELSE /\ students' = DeleteRow(students, student)
             /\ scores' = DeassociateStudent(scores, student_id)
             /\ deleted' = deleted \cup {student_id}
             /\ last' = Response("delete_student", <<student_id>>, 200, {})
             /\ UNCHANGED <<subjects, created, conc>>

create_subject ==
    /\ Handle
    /\ \E name \in SubjectNames :
        LET subject == SubjectRow(NextRowid(subjects), name) IN
        IF UniqueViolation(subjects, name)
        THEN /\ last' = Response("create_subject", <<name>>, 500, {})
             /\ UNCHANGED <<store, hist, conc>>
        ELSE /\ subjects' = subjects \cup {subject}
             /\ last' = Response("create_subject", <<name>>, 200, {subject})
             /\ UNCHANGED <<students, scores, hist, conc>>

get_subjects ==
    /\ Handle
    /\ last' = Response("get_subjects", <<>>, 200, subjects)
    /\ UNCHANGED <<store, hist, conc>>

delete_subject ==
    /\ Handle
    /\ \E subject_id \in SubjectIds :
        LET subject == QueryFirst(subjects, subject_id) IN
        IF subject = {}
        THEN /\ last' = Response("delete_subject", <<subject_id>>, 404, {})
             /\ UNCHANGED <<store, hist, conc>>
        ELSE /\ subjects' = DeleteRow(subjects, subject)
             /\ scores' = DeassociateSubject(scores, subject_id)
             /\ last' = Response("delete_subject", <<subject_id>>, 200, {})
             /\ UNCHANGED <<students, hist, conc>>

add_score ==
    /\ Handle
    /\ \E student_id \in RefStudentIds, subject_id \in RefSubjectIds, score \in ScoreValues :
        LET new_score == ScoreRow(NextRowid(scores), student_id, subject_id, score) IN
        /\ scores' = scores \cup {new_score}
        /\ last' = Response("add_score", <<student_id, subject_id, score>>, 200, {new_score})
        /\ UNCHANGED <<students, subjects, hist, conc>>

get_scores ==
    /\ Handle
    /\ last' = Response("get_scores", <<>>, 200, scores)
    /\ UNCHANGED <<store, hist, conc>>

get_score ==
    /\ Handle
    /\ \E score_id \in ScoreIds :
        /\ last' = GetScore(score_id)
        /\ UNCHANGED <<store, hist, conc>>

delete_score ==
    /\ Handle
    /\ \E score_id \in ScoreIds :
        LET score == QueryFirst(scores, score_id) IN
        IF score = {}
        THEN /\ last' = Response("delete_score", <<score_id>>, 404, {})
             /\ UNCHANGED <<store, hist, conc>>
        ELSE /\ scores' = DeleteRow(scores, score)
             /\ last' = Response("delete_score", <<score_id>>, 200, {})
             /\ UNCHANGED <<students, subjects, hist, conc>>

Next ==
    \/ create_student
    \/ get_students
    \/ get_student
    \/ update_student
    \/ delete_student
    \/ create_subject
    \/ get_subjects
    \/ delete_subject
    \/ add_score
    \/ get_scores
    \/ get_score
    \/ delete_score

Spec == Init /\ [][Next]_vars

----------------------------------------------------------------------------
(* SpecConc: the handlers as the threadpool runs them. Every handler is a    *)
(* plain "def", so each request runs on its own worker thread with its own   *)
(* session; the lookup query, the flush+commit and the refresh are separate  *)
(* round trips to the store, and no lock is held between them.               *)

ConcRequests ==
    {[op |-> "create_student", args |-> <<n, s>>] : n \in Names, s \in Surnames}
    \cup {[op |-> "get_students", args |-> <<>>]}
    \cup {[op |-> "get_student", args |-> <<i>>] : i \in ConcIds}
    \cup {[op |-> "update_student", args |-> <<i, n, NULL>>] :
              i \in ConcIds, n \in OptNames}
    \cup {[op |-> "delete_student", args |-> <<i>>] : i \in ConcIds}
    \cup {[op |-> "create_subject", args |-> <<n>>] : n \in ConcSubjectNames}
    \cup {[op |-> "get_subjects", args |-> <<>>]}
    \cup {[op |-> "delete_subject", args |-> <<i>>] : i \in ConcIds}
    \cup {[op |-> "add_score", args |-> <<i, j, v>>] :
              i \in RefStudentIds, j \in RefSubjectIds, v \in ConcScoreValues}
    \cup {[op |-> "get_scores", args |-> <<>>]}
    \cup {[op |-> "get_score", args |-> <<i>>] : i \in ConcIds}
    \cup {[op |-> "delete_score", args |-> <<i>>] : i \in ConcIds}

Creates == {"create_student", "create_subject", "add_score"}
Lists == {"get_students", "get_subjects", "get_scores"}
Gets == {"get_student", "get_score"}

\* the table a handler works on
TableOf(op) ==
    IF op \in {"create_student", "get_students", "get_student",
               "update_student", "delete_student"} THEN students
    ELSE IF op \in {"create_subject", "get_subjects", "delete_subject"} THEN subjects
    ELSE scores

\* SessionLocal(): a new Session object on every call
SessionLocal(n) == n + 1

\* Mutant: the session is closed only when the handler returned normally
Finally_OnSuccess(sessions, db, status) ==
    IF status = 200 THEN sessions \ {db} ELSE sessions

\* get_db's "finally: db.close()": runs on every exit of the handler
Finally(sessions, db, status) == sessions \ {db}

\* Mutant: a DELETE that matches no row raises StaleDataError
ConfirmDeletedRows_Raise(matched) == IF matched = 0 THEN 500 ELSE 200

\* Flush of a delete: a DELETE that matches no row only emits a warning (the
\* mapper has no version_id_col), and the handler returns its message.
ConfirmDeletedRows(matched) == 200

\* the handler of worker t leaves with this response
Reply(t, status, body) ==
    /\ resp' = [resp EXCEPT ![t] = [status |-> status, body |-> body, at |-> 0]]
    /\ pc' = [pc EXCEPT ![t] = "exit"]

\* a request arrives: get_db creates the session and yields it to the handler
get_db_enter(t) ==
    /\ pc[t] \in {"idle", "done"}
    /\ started < MaxRequests
    /\ \E r \in ConcRequests :
        /\ req' = [req EXCEPT ![t] = [op |-> r.op, args |-> r.args, seq |-> started + 1]]
        /\ pc' = [pc EXCEPT ![t] = IF r.op \in Creates THEN "commit" ELSE "query"]
    /\ started' = started + 1
    /\ nsess' = SessionLocal(nsess)
    /\ sess' = [sess EXCEPT ![t] = SessionLocal(nsess)]
    /\ open' = open \cup {SessionLocal(nsess)}
    /\ loaded' = [loaded EXCEPT ![t] = {}]
    /\ resp' = [resp EXCEPT ![t] = [status |-> 0, body |-> {}, at |-> 0]]
    /\ UNCHANGED <<store, last, hist>>

\* db.query(...).all() or db.query(...).filter(...).first()
query(t) ==
    /\ pc[t] = "query"
    /\ LET op == req[t].op
           rows == TableOf(op) IN
       IF op \in Lists
       THEN Reply(t, 200, rows) /\ UNCHANGED loaded
       ELSE LET row == QueryFirst(rows, req[t].args[1]) IN
            IF row = {}
            THEN Reply(t, 404, {}) /\ UNCHANGED loaded
            ELSE IF op \in Gets
            THEN Reply(t, 200, row) /\ UNCHANGED loaded
            ELSE /\ loaded' = [loaded EXCEPT ![t] = row]
                 /\ pc' = [pc EXCEPT ![t] = "commit"]
                 /\ UNCHANGED resp
    /\ UNCHANGED <<store, last, hist, req, sess, open, nsess, started>>

\* db.add(obj); db.commit() of the three create handlers
commit_insert(t) ==
    /\ pc[t] = "commit"
    /\ req[t].op \in Creates
    /\ LET a == req[t].args IN
       CASE req[t].op = "create_student" ->
              LET student == StudentRow(NextRowid(students), a[1], a[2]) IN
              /\ students' = students \cup {student}
              /\ created' = created \cup {student.id}
              /\ loaded' = [loaded EXCEPT ![t] = {student}]
              /\ pc' = [pc EXCEPT ![t] = "refresh"]
              /\ UNCHANGED <<subjects, scores, deleted, resp>>
         [] req[t].op = "create_subject" ->
              LET subject == SubjectRow(NextRowid(subjects), a[1]) IN
              IF UniqueViolation(subjects, a[1])
              THEN Reply(t, 500, {}) /\ UNCHANGED <<store, hist, loaded>>
              ELSE /\ subjects' = subjects \cup {subject}
                   /\ loaded' = [loaded EXCEPT ![t] = {subject}]
                   /\ pc' = [pc EXCEPT ![t] = "refresh"]
                   /\ UNCHANGED <<students, scores, hist, resp>>
         [] req[t].op = "add_score" ->
              LET new_score == ScoreRow(NextRowid(scores), a[1], a[2], a[3]) IN
              /\ scores' = scores \cup {new_score}
              /\ loaded' = [loaded EXCEPT ![t] = {new_score}]
              /\ pc' = [pc EXCEPT ![t] = "refresh"]
              /\ UNCHANGED <<students, subjects, hist, resp>>
    /\ UNCHANGED <<last, req, sess, open, nsess, started>>

\* the assignments and db.commit() of update_student: the flush sends an UPDATE
\* of the changed columns for the loaded id, and raises StaleDataError when it
\* matches no row; with no changed column nothing is sent.
commit_update(t) ==
    /\ pc[t] = "commit"
    /\ req[t].op = "update_student"
    /\ LET old == CHOOSE s \in loaded[t] : TRUE
           new == AssignFields(old, req[t].args[2], req[t].args[3])
           cur == QueryFirst(students, old.id) IN
       IF new = old
       THEN /\ pc' = [pc EXCEPT ![t] = "refresh"]
            /\ UNCHANGED <<students, resp>>
       ELSE IF cur = {}
       THEN Reply(t, 500, {}) /\ UNCHANGED students
       ELSE /\ students' = (students \ cur) \cup
                {[c EXCEPT !.name = IF new.name # old.name THEN new.name ELSE @,
                           !.surname = IF new.surname # old.surname THEN new.surname ELSE @]
                 : c \in cur}
            /\ pc' = [pc EXCEPT ![t] = "refresh"]
            /\ UNCHANGED resp
    /\ UNCHANGED <<subjects, scores, last, hist, req, loaded, sess, open, nsess, started>>

\* db.delete(row); db.commit() of the three delete handlers
commit_delete(t) ==
    /\ pc[t] = "commit"
    /\ req[t].op \in {"delete_student", "delete_subject", "delete_score"}
    /\ LET id == req[t].args[1]
           matched == QueryFirst(TableOf(req[t].op), id) IN
       /\ Reply(t, ConfirmDeletedRows(Cardinality(matched)), {})
       /\ CASE req[t].op = "delete_student" ->
                /\ students' = DeleteRow(students, matched)
                /\ scores' = DeassociateStudent(scores, id)
                /\ deleted' = deleted \cup {id}
                /\ UNCHANGED <<subjects, created>>
            [] req[t].op = "delete_subject" ->
                /\ subjects' = DeleteRow(subjects, matched)
                /\ scores' = DeassociateSubject(scores, id)
                /\ UNCHANGED <<students, hist>>
            [] req[t].op = "delete_score" ->
                /\ scores' = DeleteRow(scores, matched)
                /\ UNCHANGED <<students, subjects, hist>>
    /\ UNCHANGED <<last, req, loaded, sess, open, nsess, started>>

\* db.refresh(obj): reloads the row by its id, InvalidRequestError if it is gone
refresh(t) ==
    /\ pc[t] = "refresh"
    /\ LET obj == CHOOSE r \in loaded[t] : TRUE
           row == QueryFirst(TableOf(req[t].op), obj.id) IN
       IF row = {} THEN Reply(t, 500, {}) ELSE Reply(t, 200, row)
    /\ UNCHANGED <<store, last, hist, req, loaded, sess, open, nsess, started>>

\* the handler has returned or raised: get_db resumes after its yield
get_db_exit(t) ==
    /\ pc[t] = "exit"
    /\ open' = Finally(open, sess[t], resp[t].status)
    /\ pc' = [pc EXCEPT ![t] = "done"]
    /\ resp' = [resp EXCEPT ![t].at = started]
    /\ UNCHANGED <<store, last, hist, req, loaded, sess, nsess, started>>

\* the steps of a request once it has been received
Run(t) ==
    query(t) \/ commit_insert(t) \/ commit_update(t) \/ commit_delete(t)
        \/ refresh(t) \/ get_db_exit(t)

NextConc ==
    \/ \E t \in Threads : get_db_enter(t)
    \/ \E t \in Threads : query(t)
    \/ \E t \in Threads : commit_insert(t)
    \/ \E t \in Threads : commit_update(t)
    \/ \E t \in Threads : commit_delete(t)
    \/ \E t \in Threads : refresh(t)
    \/ \E t \in Threads : get_db_exit(t)

SpecConc == Init /\ [][NextConc]_vars

\* a worker thread runs its handler, and get_db's exit code, to the end
FairSpec == SpecConc /\ \A t \in Threads : WF_vars(Run(t))

----------------------------------------------------------------------------
(* Properties of Spec *)

Present(rows, id) == \E r \in rows : r.id = id
Ids(rows) == {r.id : r \in rows}

\* C1: create_student returns an id that no earlier create_student returned
\* (deleted students included), and the student stored under that id has
\* exactly the given name and surname.
C1_FreshIdRoundTrip ==
    [][last'.op = "create_student" =>
        \A s \in last'.body :
            /\ s.id \notin created
            /\ {r \in students' : r.id = s.id}
                 = {[id |-> s.id, name |-> last'.args[1], surname |-> last'.args[2]]}]_vars

C3_NotFoundOnceGone ==
    \A id \in StudentIds :
        (id \notin created \/ id \in deleted) => GetStudent(id).status = 404

\* C4: a successful update_student changes only the student with that id; a
\* field that is not supplied keeps its value, a supplied (non-empty) field
\* takes the supplied value; the id, the other students, the subjects and the
\* scores are unchanged.
C4_UpdateOnlySupplied ==
    [][(last'.op = "update_student" /\ last'.status = 200) =>
        LET id == last'.args[1]
            name == last'.args[2]
            surname == last'.args[3] IN
        \E old \in students, new \in students' :
            /\ old.id = id
            /\ new.id = id
            /\ students' \ {new} = students \ {old}
            /\ (name = <<>> => new.name = old.name)
            /\ (surname = <<>> => new.surname = old.surname)
            /\ ((name # <<>> /\ name # <<"">>) => new.name = name[1])
            /\ ((surname # <<>> /\ surname # <<"">>) => new.surname = surname[1])
            /\ subjects' = subjects
            /\ scores' = scores]_vars

C4_Witness ==
    /\ last.op = "update_student"
    /\ last.status = 200
    /\ last.args[2] = <<>>
    /\ last.args[3] = <<"Hopper">>
    /\ \E r \in students : r.id = last.args[1] /\ r.name = "Ada" /\ r.surname = "Hopper"
    /\ Cardinality(students) = 2

\* C5: no two subjects ever have the same name; create_subject ends in the
\* server error exactly when a subject holds the name, and then changes nothing;
\* otherwise it adds the one subject it returns.
C5_UniqueSubjectNames ==
    /\ [](\A a, b \in subjects : a.name = b.name => a = b)
    /\ [][last'.op = "create_subject" =>
            /\ (last'.status = 500) <=> (\E s \in subjects : s.name = last'.args[1])
            /\ last'.status \in {200, 500}
            /\ last'.status = 500 => store' = store
            /\ last'.status = 200 =>
                /\ Cardinality(last'.body) = 1
                /\ \A s \in last'.body : s.name = last'.args[1] /\ s.id \notin Ids(subjects)
                /\ subjects' = subjects \cup last'.body
                /\ students' = students
                /\ scores' = scores]_vars

C5_Witness ==
    /\ last.op = "create_subject"
    /\ last.status = 500
    /\ \E s \in subjects : s.name = last.args[1]

C7_Handler(op, rows, rowsAfter, deletes) ==
    last'.op = op =>
        LET id == last'.args[1] IN
        IF Present(rows, id)
        THEN /\ last'.status = 200
             /\ deletes =>
                 /\ rowsAfter = {r \in rows : r.id # id}
                 /\ ~Present(rowsAfter, id)
                 /\ Cardinality(rowsAfter) = Cardinality(rows) - 1
        ELSE /\ last'.status = 404
             /\ store' = store

\* C7: update_student, delete_student, delete_subject and delete_score answer
\* 404 for an absent id and change no record; for a present id each delete
\* removes that record and no other record of any table.
C7_NotFoundOrDeleteOne ==
    [][/\ C7_Handler("update_student", students, students', FALSE)
       /\ C7_Handler("delete_student", students, students', TRUE)
       /\ C7_Handler("delete_subject", subjects, subjects', TRUE)
       /\ C7_Handler("delete_score", scores, scores', TRUE)
       /\ last'.op = "delete_student" =>
            subjects' = subjects /\ Ids(scores') = Ids(scores)
       /\ last'.op = "delete_subject" =>
            students' = students /\ Ids(scores') = Ids(scores)
       /\ last'.op = "delete_score" =>
            students' = students /\ subjects' = subjects]_vars

C7_Witness ==
    /\ last.op = "delete_student"
    /\ last.status = 404
    /\ last.args[1] \in deleted
    /\ students # {}
    /\ scores # {}

\* C9: update_student with "" for a field leaves that field as it was, and no
\* step turns a non-empty name or surname of a student into "".
C9_EmptyStringNotAssigned ==
    [][\A old \in students, new \in students' :
        new.id = old.id =>
            /\ (old.name # "" => new.name # "")
            /\ (old.surname # "" => new.surname # "")
            /\ (last'.op = "update_student" /\ last'.args[1] = old.id) =>
                /\ (last'.args[2] = <<"">> => new.name = old.name)
                /\ (last'.args[3] = <<"">> => new.surname = old.surname)]_vars

C9_Witness ==
    /\ last.op = "update_student"
    /\ last.status = 200
    /\ last.args[2] = <<"">>
    /\ last.args[3] = <<"Hopper">>
    /\ \E r \in students : r.id = last.args[1] /\ r.name = "Ada" /\ r.surname = "Hopper"

----------------------------------------------------------------------------
(* Properties of SpecConc and FairSpec *)

InFlight(t) == pc[t] \notin {"idle", "done"}

\* the finished requests of t1 and t2 overlapped: t2's arrived after t1's did
\* and before t1's had finished
InFlightTogether(t1, t2) ==
    /\ pc[t1] = "done"
    /\ pc[t2] = "done"
    /\ req[t1].seq < req[t2].seq
    /\ resp[t1].at >= req[t2].seq

\* C8: a request in flight has a session of its own, open and shared with no
\* other request; no session is open once its request has finished, whether
\* the handler returned, answered 404 or failed in its commit; and every
\* session that a request holds is eventually closed.
C8_SessionPerRequest ==
    /\ [](\A t \in Threads : InFlight(t) <=> sess[t] \in open)
    /\ [](\A t1, t2 \in Threads :
            (t1 # t2 /\ InFlight(t1) /\ InFlight(t2)) => sess[t1] # sess[t2])
    /\ [](open \subseteq {sess[t] : t \in {u \in Threads : InFlight(u)}})
    /\ \A t \in Threads : (sess[t] \in open) ~> (sess[t] \notin open)

C8_Witness ==
    \E t1, t2 \in Threads :
        /\ req[t1].op = "create_subject"
        /\ pc[t1] = "done"
        /\ resp[t1].status = 500
        /\ sess[t1] # 0
        /\ req[t2].op = "delete_student"
        /\ pc[t2] = "done"
        /\ resp[t2].status = 404
        /\ sess[t2] # 0
        /\ sess[t2] # sess[t1]
        /\ open = {}

====
